---- MODULE Spec2Model ----
(***************************************************************************)
(* Model of the token-acl-gate program: the zero-copy account loaders,     *)
(* the immutable-owner TLV scan, the CanThawPermissionless check and the   *)
(* RemoveWallet instruction.                                               *)
(*                                                                         *)
(* An account is a record [owner, lamports, data]; a data buffer is a      *)
(* record of its length and of the fields a typed view reads from it.      *)
(* No handler holds a borrow across a call, so try_borrow_data succeeds    *)
(* wherever the handlers call it.                                          *)
(***************************************************************************)
EXTENDS Integers, Sequences, FiniteSets, TLC

VARIABLES accounts, last, removed

vars == <<accounts, last, removed>>

---------------------------------------------------------------------------
(* Bounds of the model                                                     *)

\* Stand-in for u64::MAX in the checked lamports addition.
LamportsMax == 4
\* Largest storage deposit of a wallet entry.
MaxDeposit == 2
\* Largest number of (list, wallet-entry) pairs in one authorization check.
MaxPairs == 2
\* Largest number of TLV extensions on a token account.
MaxExt == 2

---------------------------------------------------------------------------
(* Owners and keys                                                         *)

\* crate::ID, the owner of every record of this program.
ID == "Program"
\* Pubkey::default(), the owner of storage nobody has been assigned.
DefaultPubkey == "System"
\* Some other program.
OtherProgram == "Other"

NoKey == "None"

ListKeys == {"L1", "L2", "L3"}
WalletKeys == {"W1", "W2", "F"}
AuthorityKeys == {"A1", "A2"}
Keys == ListKeys \cup WalletKeys \cup AuthorityKeys

Modes == {"Allow", "AllowAllEoas", "Block"}

---------------------------------------------------------------------------
(* Record layouts (state/list_config.rs and state/wallet_entry.rs)         *)

WalletEntryLEN == 65
ListConfigLEN == 74
WalletEntryDISCRIMINATOR == 2
ListConfigDISCRIMINATOR == 1

LEN(T) == IF T = "WalletEntry" THEN WalletEntryLEN ELSE ListConfigLEN

DISCRIMINATOR(T) ==
    IF T = "WalletEntry" THEN WalletEntryDISCRIMINATOR ELSE ListConfigDISCRIMINATOR

is_initialized(T, t) == t.disc = DISCRIMINATOR(T)

get_mode(list_config) == list_config.mode

EmptyData ==
    [len |-> 0, disc |-> 0, list_config |-> NoKey, authority |-> NoKey,
     mode |-> "Allow", wallets_count |-> 0]

\* The bytes of a WalletEntry-sized buffer with the given marker and
\* back-reference.
WalletEntryData(disc, list) ==
    [EmptyData EXCEPT !.len = WalletEntryLEN, !.disc = disc, !.list_config = list]

\* The bytes of an initialized ListConfig.
ListConfigData(authority, mode, count) ==
    [EmptyData EXCEPT !.len = ListConfigLEN, !.disc = ListConfigDISCRIMINATOR,
                      !.authority = authority, !.mode = mode,
                      !.wallets_count = count]

---------------------------------------------------------------------------
(* Zero-copy loaders (state/mod.rs)                                        *)

Ok(v) == [ok |-> TRUE, val |-> v, err |-> "Ok"]
Err(e) == [ok |-> FALSE, val |-> EmptyData, err |-> e]

load_unchecked(T, bytes) ==
    IF bytes.len # LEN(T) THEN Err("InvalidAccountData") ELSE Ok(bytes)

load_mut_unchecked(T, bytes) ==
    IF bytes.len # LEN(T) THEN Err("InvalidAccountData") ELSE Ok(bytes)

load(T, bytes) ==
    LET r == load_unchecked(T, bytes) IN
    IF ~r.ok THEN r
    ELSE IF is_initialized(T, r.val) THEN r
    ELSE Err("InvalidAccountData")

is_owned_by(acc, key, program) == acc[key].owner = program

---------------------------------------------------------------------------
(* Extension scanner (state/mod.rs)                                        *)

IMMUTABLE_OWNER_EXTENSION_ID == 7
TOKEN_ACCOUNT_LEN == 165
EXTENSION_START_PADDING == 1
EXTENSION_LEN_BYTES_LEN == 2
EXTENSION_TYPE_BYTES_LEN == 2
EXTENSION_HEADER_LEN == EXTENSION_LEN_BYTES_LEN + EXTENSION_TYPE_BYTES_LEN
EXTENSION_DATA_START_INDEX == TOKEN_ACCOUNT_LEN + EXTENSION_START_PADDING

\* Faulty variant: only the low byte of the tag is read.
u16_low_byte_only(bytes, at) == bytes[at + 1]

\* u16::from_le_bytes of the two bytes at 0-based offsets [at, at + 2).
u16_from_le_bytes(bytes, at) == bytes[at + 1] + 256 * bytes[at + 2]

\* The while loop of has_immutable_owner_extension over the extension
\* region, `start` being the 0-based cursor.  A slice that runs past the end
\* of the region panics.
RECURSIVE ScanExtensions(_, _)
ScanExtensions(extension_bytes, start) ==
    LET end == Len(extension_bytes) IN
    IF ~(start < end) THEN "false"
    ELSE IF start + EXTENSION_TYPE_BYTES_LEN > end THEN "panic"
    ELSE IF u16_from_le_bytes(extension_bytes, start) = IMMUTABLE_OWNER_EXTENSION_ID
         THEN "true"
    ELSE IF start + EXTENSION_HEADER_LEN > end THEN "panic"
    ELSE ScanExtensions(extension_bytes,
             start + EXTENSION_HEADER_LEN
                   + u16_from_le_bytes(extension_bytes, start + EXTENSION_TYPE_BYTES_LEN))

\* A token-account buffer is [base, ext]: `base` bytes of base record and
\* padding (at most EXTENSION_DATA_START_INDEX of them) followed by the
\* bytes `ext` of the extension region.
has_immutable_owner_extension(token_account) ==
    IF token_account.base + Len(token_account.ext) < EXTENSION_DATA_START_INDEX
    THEN "false"
    ELSE ScanExtensions(token_account.ext, 0)

---------------------------------------------------------------------------
(* CanThawPermissionless (instructions/can_thaw_permissionless.rs)         *)

\* Faulty variant: the Allow arm without the owner check on the wallet entry.
AllowBranchNoOwnerCheck(acc, list, wallet_entry) ==
    LET wallet == load("WalletEntry", acc[wallet_entry].data) IN
    IF ~wallet.ok THEN "AccountBlocked"
    ELSE IF wallet.val.list_config # list THEN "InvalidWalletEntry"
    ELSE "Ok"

\* Mode::Allow arm of validate_thaw_list.
AllowBranch(acc, list, wallet_entry) ==
    LET wallet == load("WalletEntry", acc[wallet_entry].data) IN
    IF ~wallet.ok THEN "AccountBlocked"
    ELSE IF ~is_owned_by(acc, wallet_entry, ID) \/ wallet.val.list_config # list
         THEN "InvalidWalletEntry"
    ELSE "Ok"

\* Faulty variant: the AllowAllEoas arm with the back-reference check left out of
\* the fallback.
AllowAllEoasBranchNoBackRef(acc, list, onCurve, wallet_entry) ==
    IF ~onCurve
    THEN LET wallet == load("WalletEntry", acc[wallet_entry].data) IN
         IF ~wallet.ok THEN "AccountBlocked"
         ELSE IF ~is_owned_by(acc, wallet_entry, ID) THEN "InvalidWalletEntry"
         ELSE "Ok"
    ELSE "Ok"

\* Mode::AllowAllEoas arm; validate_edwards is the owner key's onCurve.
AllowAllEoasBranch(acc, list, onCurve, wallet_entry) ==
    IF ~onCurve
    THEN LET wallet == load("WalletEntry", acc[wallet_entry].data) IN
         IF ~wallet.ok THEN "AccountBlocked"
         ELSE IF ~is_owned_by(acc, wallet_entry, ID) \/ wallet.val.list_config # list
              THEN "InvalidWalletEntry"
         ELSE "Ok"
    ELSE "Ok"

\* Faulty variant: the Block arm without the owner gate.
BlockBranchNoOwnerGate(acc, list, wallet_entry) ==
    LET res == load("WalletEntry", acc[wallet_entry].data) IN
    IF res.ok
    THEN IF res.val.list_config # list THEN "InvalidWalletEntry"
         ELSE "AccountBlocked"
    ELSE "Ok"

\* Mode::Block arm.
BlockBranch(acc, list, wallet_entry) ==
    LET res == load("WalletEntry", acc[wallet_entry].data) IN
    IF ~is_owned_by(acc, wallet_entry, DefaultPubkey) /\ ~is_owned_by(acc, wallet_entry, ID)
    THEN "InvalidWalletEntry"
    ELSE IF res.ok
         THEN IF res.val.list_config # list THEN "InvalidWalletEntry"
              ELSE "AccountBlocked"
    ELSE "Ok"

validate_thaw_list(acc, list, onCurve, wallet_entry) ==
    IF ~is_owned_by(acc, list, ID) THEN "InvalidListConfig"
    ELSE LET list_config == load("ListConfig", acc[list].data) IN
         IF ~list_config.ok THEN list_config.err
         ELSE CASE get_mode(list_config.val) = "Allow" ->
                       AllowBranch(acc, list, wallet_entry)
                [] get_mode(list_config.val) = "AllowAllEoas" ->
                       AllowAllEoasBranch(acc, list, onCurve, wallet_entry)
                [] get_mode(list_config.val) = "Block" ->
                       BlockBranch(acc, list, wallet_entry)

\* Faulty variant: the loop keeps going after a failure and reports the last one.
RECURSIVE ThawLoopNoShortCircuit(_, _, _, _, _)
ThawLoopNoShortCircuit(acc, onCurve, remaining_accounts, i, evaluated) ==
    IF i > Len(remaining_accounts)
    THEN [result |-> "Ok", evaluated |-> evaluated]
    ELSE LET r == validate_thaw_list(acc, remaining_accounts[i], onCurve,
                                     remaining_accounts[i + 1])
             rest == ThawLoopNoShortCircuit(acc, onCurve, remaining_accounts,
                                            i + 2, evaluated + 1) IN
         IF rest.result # "Ok" \/ r = "Ok" THEN rest
         ELSE [result |-> r, evaluated |-> rest.evaluated]

\* The while-let loop of process over remaining_accounts from 1-based
\* position i; `evaluated` counts the calls of validate_thaw_list.
RECURSIVE ThawLoop(_, _, _, _, _)
ThawLoop(acc, onCurve, remaining_accounts, i, evaluated) ==
    IF i > Len(remaining_accounts)
    THEN [result |-> "Ok", evaluated |-> evaluated]
    ELSE LET r == validate_thaw_list(acc, remaining_accounts[i], onCurve,
                                     remaining_accounts[i + 1]) IN
         IF r # "Ok" THEN [result |-> r, evaluated |-> evaluated + 1]
         ELSE ThawLoop(acc, onCurve, remaining_accounts, i + 2, evaluated + 1)

CanThawProcess(acc, token_account, onCurve, remaining_accounts) ==
    LET ext == has_immutable_owner_extension(token_account) IN
    IF ext = "panic" THEN [result |-> "Panic", evaluated |-> 0]
    ELSE IF ext = "false"
         THEN [result |-> "ImmutableOwnerExtensionMissing", evaluated |-> 0]
    ELSE ThawLoop(acc, onCurve, remaining_accounts, 1, 0)

\* TryFrom<&[AccountInfo]>: `prefix` accounts precede the remaining ones.
CanThawTryFrom(prefix, remaining_accounts) ==
    IF prefix < 6 THEN "NotEnoughAccounts"
    ELSE IF Len(remaining_accounts) % 2 # 0 THEN "InvalidRemainingAccounts"
    ELSE "Ok"

---------------------------------------------------------------------------
(* RemoveWallet (instructions/remove_wallet.rs)                            *)

\* AccountInfo::close: owner, lamports and data length are zeroed.
close(acc, key) ==
    [acc EXCEPT ![key] = [owner |-> DefaultPubkey, lamports |-> 0, data |-> EmptyData]]

\* ListConfig::decrement_wallets_count: a checked subtraction of one.
decrement_wallets_count(acc, list_config) ==
    IF acc[list_config].data.wallets_count = 0
    THEN [result |-> "ArithmeticOverflow", acc |-> acc]
    ELSE [result |-> "Ok",
          acc |-> [acc EXCEPT ![list_config].data.wallets_count = @ - 1]]

\* TryFrom<&[AccountInfo]> on the account keys `accts`; the two flags are
\* is_writable of the list and of the wallet entry.
RemoveWalletTryFrom(acc, accts, listWritable, walletWritable) ==
    IF Len(accts) # 3 THEN "NotEnoughAccounts"
    ELSE LET list_config == accts[2]
             wallet_entry == accts[3] IN
         IF ~is_owned_by(acc, list_config, ID) THEN "InvalidConfigAccount"
         ELSE IF ~listWritable \/ ~walletWritable THEN "AccountNotWritable"
         ELSE LET we == load("WalletEntry", acc[wallet_entry].data) IN
              IF ~we.ok THEN we.err
              ELSE IF ~(we.val.list_config = list_config) THEN "InvalidWalletEntry"
              ELSE "Ok"

\* Faulty variant: the authority check joins its two conditions with "and".
RemoveWalletProcessAuthorityAnd(acc, authority, signer, list_config, wallet_entry) ==
    LET lc == load_mut_unchecked("ListConfig", acc[list_config].data) IN
    IF ~lc.ok THEN [result |-> lc.err, acc |-> acc]
    ELSE IF ~signer /\ lc.val.authority # authority
         THEN [result |-> "InvalidAuthority", acc |-> acc]
    ELSE LET destination_lamports == acc[authority].lamports
             sum == destination_lamports + acc[wallet_entry].lamports IN
         IF sum > LamportsMax THEN [result |-> "ArithmeticOverflow", acc |-> acc]
         ELSE LET credited == [acc EXCEPT ![authority].lamports = sum]
                  closed == close(credited, wallet_entry) IN
              decrement_wallets_count(closed, list_config)

\* Faulty variant: the wallet entry is drained but not closed.
RemoveWalletProcessNoClose(acc, authority, signer, list_config, wallet_entry) ==
    LET lc == load_mut_unchecked("ListConfig", acc[list_config].data) IN
    IF ~lc.ok THEN [result |-> lc.err, acc |-> acc]
    ELSE IF ~signer \/ lc.val.authority # authority
         THEN [result |-> "InvalidAuthority", acc |-> acc]
    ELSE LET destination_lamports == acc[authority].lamports
             sum == destination_lamports + acc[wallet_entry].lamports IN
         IF sum > LamportsMax THEN [result |-> "ArithmeticOverflow", acc |-> acc]
         ELSE LET credited == [acc EXCEPT ![authority].lamports = sum,
                                          ![wallet_entry].lamports = 0] IN
              decrement_wallets_count(credited, list_config)

\* process: the result and the account buffers as the handler leaves them.
RemoveWalletProcess(acc, authority, signer, list_config, wallet_entry) ==
    LET lc == load_mut_unchecked("ListConfig", acc[list_config].data) IN
    IF ~lc.ok THEN [result |-> lc.err, acc |-> acc]
    ELSE IF ~signer \/ lc.val.authority # authority
         THEN [result |-> "InvalidAuthority", acc |-> acc]
    ELSE LET destination_lamports == acc[authority].lamports
             sum == destination_lamports + acc[wallet_entry].lamports IN
         IF sum > LamportsMax THEN [result |-> "ArithmeticOverflow", acc |-> acc]
         ELSE LET credited == [acc EXCEPT ![authority].lamports = sum]
                  closed == close(credited, wallet_entry) IN
              decrement_wallets_count(closed, list_config)

\* Construction followed by process, as the entrypoint runs them.
RemoveWalletHandler(acc, accts, signer, listWritable, walletWritable) ==
    LET c == RemoveWalletTryFrom(acc, accts, listWritable, walletWritable) IN
    IF c # "Ok" THEN [result |-> c, acc |-> acc]
    ELSE RemoveWalletProcess(acc, accts[1], signer, accts[2], accts[3])

\* The host commits the buffers of an invocation that returns Ok and
\* discards those of one that fails.
HostCommit(pre, out) == IF out.result = "Ok" THEN out.acc ELSE pre

---------------------------------------------------------------------------
(* Inputs                                                                  *)

SeqsUpTo(S, n) == UNION {[1..k -> S] : k \in 0..n}

\* Extensions a token account may carry: [type, dlen].  263 has the low
\* byte of the immutable-owner tag; the data bytes of an extension are 7s.
ExtEntries ==
    {[type |-> IMMUTABLE_OWNER_EXTENSION_ID, dlen |-> 0],
     [type |-> 2, dlen |-> 2],
     [type |-> 263, dlen |-> 0]}

EncodeEntry(e) ==
    <<e.type % 256, e.type \div 256, e.dlen % 256, e.dlen \div 256>>
        \o [i \in 1..e.dlen |-> 7]

RECURSIVE EncodeExtensions(_)
EncodeExtensions(entries) ==
    IF entries = <<>> THEN <<>>
    ELSE EncodeEntry(Head(entries)) \o EncodeExtensions(Tail(entries))

\* Token accounts: [base, entries, pad].  Well-formed ones have the whole
\* prefix and a TLV region holding exactly the entries; short ones stop
\* before the extension region; malformed ones end in `pad` stray bytes.
WellFormedTokens ==
    {[base |-> EXTENSION_DATA_START_INDEX, entries |-> es, pad |-> 0] :
        es \in SeqsUpTo(ExtEntries, MaxExt)}

ShortTokens ==
    {[base |-> b, entries |-> <<>>, pad |-> 0] : b \in {0, TOKEN_ACCOUNT_LEN}}

MalformedTokens ==
    {[base |-> EXTENSION_DATA_START_INDEX, entries |-> <<>>, pad |-> p] : p \in {1, 2}}

TokenInputs == WellFormedTokens \cup ShortTokens \cup MalformedTokens

TokenBuffer(t) ==
    [base |-> t.base,
     ext |-> EncodeExtensions(t.entries) \o [i \in 1..t.pad |-> 0]]

RECURSIVE Flatten(_)
Flatten(pairs) ==
    IF pairs = <<>> THEN <<>>
    ELSE <<Head(pairs)[1], Head(pairs)[2]>> \o Flatten(Tail(pairs))

ThawPairs == ListKeys \X {"W1", "W2"}

NoCall == [op |-> "none"]

\* No invocation is in progress: `last` holds the record of the invocation
\* that has just returned, until the host settles it.
Idle == last = NoCall

\* The host finishes the transaction; the next invocation starts from the
\* committed accounts.
Settle ==
    /\ ~Idle
    /\ last' = NoCall
    /\ UNCHANGED <<accounts, removed>>

Account(owner, lamports, data) ==
    [owner |-> owner, lamports |-> lamports, data |-> data]

---------------------------------------------------------------------------
(* Specification of the mutation path: AddWallet and RemoveWallet          *)

Init ==
    /\ \E ref \in {"L1", "W1"} :
       accounts =
         [k \in Keys |->
            CASE k = "L1" -> Account(ID, 1, ListConfigData("A1", "Allow", 0))
              [] k = "L2" -> Account(ID, 1, ListConfigData("A2", "Block", 0))
              [] k = "L3" -> Account(ID, 1, ListConfigData("A1", "AllowAllEoas", 0))
              [] k = "F"  -> Account(OtherProgram, 1,
                                     WalletEntryData(WalletEntryDISCRIMINATOR, ref))
              [] OTHER    -> Account(DefaultPubkey, 0, EmptyData)]
    /\ last = NoCall
    /\ removed = {}

\* The add-wallet path: a wallet entry is created at an unassigned address
\* with its deposit and the list's counter is incremented.
AddWallet ==
    /\ Idle
    /\ \E l \in {"L1", "L2"}, w \in {"W1", "W2"}, deposit \in 1..MaxDeposit :
        /\ is_owned_by(accounts, w, DefaultPubkey)
        /\ accounts[w].data.len = 0
        /\ accounts' =
             [accounts EXCEPT
                ![w] = Account(ID, deposit,
                               WalletEntryData(WalletEntryDISCRIMINATOR, l)),
                ![l].data.wallets_count = @ + 1]
        /\ last' = [op |-> "AddWallet", list |-> l, wallet |-> w]
        /\ removed' = removed \ {w}

RemoveWallet ==
    /\ Idle
    /\ \E authority \in AuthorityKeys, list \in {"L1", "L2", "F", "W1"},
       wallet \in WalletKeys, n \in {2, 3},
       signer \in BOOLEAN, listWritable \in BOOLEAN, walletWritable \in BOOLEAN :
        LET accts == SubSeq(<<authority, list, wallet>>, 1, n)
            out == RemoveWalletHandler(accounts, accts, signer,
                                       listWritable, walletWritable) IN
        /\ accounts' = HostCommit(accounts, out)
        /\ last' = [op |-> "RemoveWallet", authority |-> authority,
                    signer |-> signer, list |-> list, wallet |-> wallet,
                    constructed |->
                        (RemoveWalletTryFrom(accounts, accts, listWritable,
                                             walletWritable) = "Ok"),
                    foreign |-> ~is_owned_by(accounts, wallet, ID),
                    againRemoved |-> wallet \in removed,
                    result |-> out.result,
                    dirty |-> (out.acc # accounts)]
        /\ removed' = IF out.result = "Ok" THEN removed \cup {wallet} ELSE removed

Next == AddWallet \/ RemoveWallet \/ Settle

Spec == Init /\ [][Next]_vars

---------------------------------------------------------------------------
(* Specification of the read path: CanThawPermissionless                   *)

\* What a wallet-entry address may hold: nothing, a zeroed buffer, or an
\* initialized entry of one of the lists; unassigned storage is zeroed.
WalletConfigs ==
    {Account(o, 1, d) :
        o \in {ID, OtherProgram},
        d \in {EmptyData, WalletEntryData(0, NoKey)}
              \cup {WalletEntryData(WalletEntryDISCRIMINATOR, l) : l \in ListKeys}}
    \cup {Account(DefaultPubkey, 0, EmptyData),
          Account(DefaultPubkey, 1, WalletEntryData(0, NoKey))}

InitThaw ==
    /\ \E w1 \in WalletConfigs :
         accounts =
           [k \in Keys |->
              CASE k = "L1" -> Account(ID, 1, ListConfigData("A1", "Allow", 1))
                [] k = "L2" -> Account(ID, 1, ListConfigData("A1", "AllowAllEoas", 0))
                [] k = "L3" -> Account(ID, 1, ListConfigData("A2", "Block", 1))
                [] k = "W1" -> w1
                [] k = "W2" -> Account(ID, 1,
                                       WalletEntryData(WalletEntryDISCRIMINATOR, "L3"))
                [] k = "F"  -> Account(OtherProgram, 1,
                                       ListConfigData("A1", "Allow", 0))
                [] OTHER    -> Account(DefaultPubkey, 0, EmptyData)]
    /\ last = NoCall
    /\ removed = {}

\* validate_thaw_list on one (list, wallet-entry) pair.
ValidateThawList ==
    /\ Idle
    /\ \E list \in ListKeys \cup {"F", "W1", "A1"}, wallet \in WalletKeys \cup {"A1"},
       onCurve \in BOOLEAN :
        /\ last' = [op |-> "validate_thaw_list", list |-> list, wallet |-> wallet,
                    onCurve |-> onCurve,
                    result |-> validate_thaw_list(accounts, list, onCurve, wallet)]
        /\ UNCHANGED <<accounts, removed>>

\* TryFrom of the authorization check.
CanThawConstruct ==
    /\ Idle
    /\ \E prefix \in 5..6, remaining \in SeqsUpTo({"L1", "W1"}, 2 * MaxPairs) :
        /\ last' = [op |-> "CanThaw::try_from", prefix |-> prefix,
                    remaining |-> remaining,
                    result |-> CanThawTryFrom(prefix, remaining)]
        /\ UNCHANGED <<accounts, removed>>

\* process of the authorization check on a constructed instruction.
CanThaw ==
    /\ Idle
    /\ \E token \in TokenInputs, onCurve \in BOOLEAN,
       pairs \in SeqsUpTo(ThawPairs, MaxPairs) :
        LET out == CanThawProcess(accounts, TokenBuffer(token), onCurve,
                                  Flatten(pairs)) IN
        /\ last' = [op |-> "CanThaw", token |-> token, onCurve |-> onCurve,
                    pairs |-> pairs, result |-> out.result,
                    evaluated |-> out.evaluated]
        /\ UNCHANGED <<accounts, removed>>

NextThaw == ValidateThawList \/ CanThawConstruct \/ CanThaw \/ Settle

SpecThaw == InitThaw /\ [][NextThaw]_vars

---------------------------------------------------------------------------
(* Vocabulary of the properties                                            *)

\* The buffer at k loads as an initialized WalletEntry.
LoadsAsWalletEntry(k) ==
    /\ accounts[k].data.len = WalletEntryLEN
    /\ accounts[k].data.disc = WalletEntryDISCRIMINATOR

\* k is a ListConfig of this program in mode m.
IsListInMode(k, m) ==
    /\ accounts[k].owner = ID
    /\ accounts[k].data.len = ListConfigLEN
    /\ accounts[k].data.disc = ListConfigDISCRIMINATOR
    /\ accounts[k].data.mode = m

\* A WalletEntry record of this program exists at k.
EntryExists(k) == LoadsAsWalletEntry(k) /\ accounts[k].owner = ID

\* The token account's extension region holds the immutable-owner tag.
CarriesImmutableOwner(token) ==
    /\ token.base = EXTENSION_DATA_START_INDEX
    /\ \E i \in 1..Len(token.entries) :
           token.entries[i].type = IMMUTABLE_OWNER_EXTENSION_ID

WellFormedToken(token) == token.pad = 0

Validated(m) == last.op = "validate_thaw_list" /\ IsListInMode(last.list, m)

---------------------------------------------------------------------------
(* Properties of the read path, checked under SpecThaw                     *)

\* C1: on an Allow-mode list, validate_thaw_list passes exactly when the
\* wallet-entry buffer loads as an initialized WalletEntry, the account is
\* owned by this program and its list_config equals the list's address; a
\* buffer that does not load fails with AccountBlocked, and a wrong owner or
\* a wrong back-reference fails with InvalidWalletEntry.
C1_AllowPassesIffMember ==
    Validated("Allow") =>
        LET w == last.wallet
            good == /\ accounts[w].owner = ID
                    /\ accounts[w].data.list_config = last.list IN
        /\ (last.result = "Ok") <=> (LoadsAsWalletEntry(w) /\ good)
        /\ ~LoadsAsWalletEntry(w) => last.result = "AccountBlocked"
        /\ (LoadsAsWalletEntry(w) /\ ~good) => last.result = "InvalidWalletEntry"

\* An Allow-mode check on a record of another program that names the list:
\* it is rejected as an invalid wallet entry.
C1_Witness ==
    /\ Validated("Allow")
    /\ LoadsAsWalletEntry(last.wallet)
    /\ accounts[last.wallet].owner = OtherProgram
    /\ accounts[last.wallet].data.list_config = last.list
    /\ last.result = "InvalidWalletEntry"

\* C2 as stated: on a Block-mode list, validate_thaw_list passes exactly when
\* no WalletEntry exists in the supplied account; an existing entry naming
\* the list fails with AccountBlocked and one naming another list fails with
\* InvalidWalletEntry.
C2_BlockPassesIffAbsent ==
    Validated("Block") =>
        LET w == last.wallet IN
        /\ (last.result = "Ok") <=> ~EntryExists(w)
        /\ (EntryExists(w) /\ accounts[w].data.list_config = last.list)
               => last.result = "AccountBlocked"
        /\ (EntryExists(w) /\ accounts[w].data.list_config # last.list)
               => last.result = "InvalidWalletEntry"

\* C2 amended: on a Block-mode list, an account owned neither by this
\* program nor by the default owner fails with InvalidWalletEntry whatever it
\* holds; otherwise the check passes exactly when the buffer does not load as
\* an initialized WalletEntry, a loaded entry naming the list fails with
\* AccountBlocked and one naming another list fails with InvalidWalletEntry.
C2_BlockPassesIffAbsentAndAcceptedOwner ==
    Validated("Block") =>
        LET w == last.wallet
            accepted == accounts[w].owner \in {ID, DefaultPubkey} IN
        /\ (last.result = "Ok") <=> (accepted /\ ~LoadsAsWalletEntry(w))
        /\ ~accepted => last.result = "InvalidWalletEntry"
        /\ (accepted /\ LoadsAsWalletEntry(w)
                     /\ accounts[w].data.list_config = last.list)
               => last.result = "AccountBlocked"
        /\ (accepted /\ LoadsAsWalletEntry(w)
                     /\ accounts[w].data.list_config # last.list)
               => last.result = "InvalidWalletEntry"

\* A Block-mode check on an account of another program holding no record:
\* no block record exists, and the check fails all the same.
C2_Witness ==
    /\ Validated("Block")
    /\ accounts[last.wallet].owner = OtherProgram
    /\ ~LoadsAsWalletEntry(last.wallet)
    /\ last.result = "InvalidWalletEntry"

\* C3: on an AllowAllEoas-mode list, an owner key on the curve passes
\* whatever the wallet-entry account holds; an owner key off the curve gets
\* the outcome of the Allow-mode check on the same list and wallet entry.
C3_EoaPassesElseAllowRule ==
    Validated("AllowAllEoas") =>
        /\ last.onCurve => last.result = "Ok"
        /\ ~last.onCurve =>
               last.result = AllowBranch(accounts, last.list, last.wallet)

\* An off-curve owner on an AllowAllEoas list with an entry of this program
\* that names another list: the Allow rule rejects it.
C3_Witness ==
    /\ Validated("AllowAllEoas")
    /\ ~last.onCurve
    /\ EntryExists(last.wallet)
    /\ accounts[last.wallet].data.list_config # last.list
    /\ last.result = "InvalidWalletEntry"

\* The outcome of each supplied pair taken on its own.
PairResults ==
    [i \in 1..Len(last.pairs) |->
        validate_thaw_list(accounts, last.pairs[i][1], last.onCurve,
                           last.pairs[i][2])]

FailingPairs == {i \in 1..Len(last.pairs) : PairResults[i] # "Ok"}

FirstFailing == CHOOSE i \in FailingPairs : \A j \in FailingPairs : i <= j

\* C4: with the extension present, process passes exactly when every pair
\* passes; otherwise it returns the error of the first failing pair and has
\* evaluated no pair after it.
C4_AllPairsOrFirstFailure ==
    (last.op = "CanThaw" /\ CarriesImmutableOwner(last.token)) =>
        /\ (last.result = "Ok") <=> (FailingPairs = {})
        /\ FailingPairs = {} => last.evaluated = Len(last.pairs)
        /\ FailingPairs # {} =>
               /\ last.result = PairResults[FirstFailing]
               /\ last.evaluated = FirstFailing

\* Two pairs that fail with different errors: the first one's is returned
\* and the second is not evaluated.
C4_Witness ==
    /\ last.op = "CanThaw"
    /\ CarriesImmutableOwner(last.token)
    /\ Len(last.pairs) = 2
    /\ FailingPairs = {1, 2}
    /\ PairResults[1] # PairResults[2]
    /\ last.result = PairResults[1]
    /\ last.evaluated = 1

\* C5: a check on a token account whose TLV region does not hold the
\* immutable-owner extension fails with ImmutableOwnerExtensionMissing,
\* whatever the pairs are, and evaluates none of them.
C5_MissingExtensionAlwaysFails ==
    (last.op = "CanThaw" /\ WellFormedToken(last.token)
                         /\ ~CarriesImmutableOwner(last.token)) =>
        /\ last.result = "ImmutableOwnerExtensionMissing"
        /\ last.evaluated = 0

\* A token account with other extensions only, checked against pairs that
\* all pass on their own.
C5_Witness ==
    /\ last.op = "CanThaw"
    /\ WellFormedToken(last.token)
    /\ ~CarriesImmutableOwner(last.token)
    /\ Len(last.token.entries) = MaxExt
    /\ Len(last.pairs) > 0
    /\ FailingPairs = {}
    /\ last.result = "ImmutableOwnerExtensionMissing"

---------------------------------------------------------------------------
(* Properties of the mutation path, checked under Spec                     *)

\* C6: a buffer not owned by this program is never taken for a valid
\* WalletEntry: it passes no Allow or AllowAllEoas membership check, it
\* blocks nothing in Block mode, and RemoveWallet neither constructs on it
\* nor removes it.
C6_ForeignBufferNeverValid ==
    /\ (last.op = "validate_thaw_list" /\ accounts[last.wallet].owner # ID) =>
           /\ Validated("Allow") => last.result # "Ok"
           /\ (Validated("AllowAllEoas") /\ ~last.onCurve) => last.result # "Ok"
           /\ Validated("Block") => last.result # "AccountBlocked"
    /\ (last.op = "RemoveWallet" /\ last.foreign) =>
           /\ ~last.constructed
           /\ last.result # "Ok"

\* The list's stored authority differs from the account given, or the
\* account did not sign.
BadAuthority ==
    \/ ~last.signer
    \/ accounts[last.list].data.authority # last.authority

\* C7: a RemoveWallet whose authority did not sign or is not the list's
\* stored authority fails and writes nothing to the list's counter, the
\* wallet entry or the authority's balance; once the accounts have passed
\* construction and the list buffer is a ListConfig, the error is
\* InvalidAuthority.
C7_BadAuthorityFailsUnchanged ==
    (last.op = "RemoveWallet" /\ BadAuthority) =>
        /\ last.result # "Ok"
        /\ ~last.dirty
        /\ (last.constructed /\ accounts[last.list].data.len = ListConfigLEN)
               => last.result = "InvalidAuthority"

\* A signer that is not the list's authority asks to remove a live entry of
\* the list.
C7_Witness ==
    /\ last.op = "RemoveWallet"
    /\ last.signer
    /\ IsListInMode(last.list, "Allow")
    /\ accounts[last.list].data.authority # last.authority
    /\ EntryExists(last.wallet)
    /\ last.constructed
    /\ last.result = "InvalidAuthority"

\* The live entries of list l: records of this program that name it.
LiveEntries(l) ==
    {w \in Keys : EntryExists(w) /\ accounts[w].data.list_config = l}

\* C8: every list's wallets_count equals the number of live WalletEntry
\* records that name the list, in every state additions and removals reach.
C8_CountEqualsLiveEntries ==
    \A l \in ListKeys :
        accounts[l].data.wallets_count = Cardinality(LiveEntries(l))

\* C9: a RemoveWallet on a wallet entry that was removed and not created
\* again fails, decrements nothing and transfers nothing.
C9_SecondRemovalFails ==
    (last.op = "RemoveWallet" /\ last.againRemoved) =>
        /\ last.result # "Ok"
        /\ ~last.dirty

\* The list's authority signs a second removal of an entry while the list
\* still counts another live entry.
C9_Witness ==
    /\ last.op = "RemoveWallet"
    /\ last.againRemoved
    /\ last.signer
    /\ ~BadAuthority
    /\ IsListInMode(last.list, "Allow")
    /\ accounts[last.list].data.wallets_count > 0
    /\ last.result = "InvalidAccountData"

\* C10: a RemoveWallet that returns an error has written nothing: every
\* fallible step comes before the first write.
C10_ErrorLeavesNoWrite ==
    (last.op = "RemoveWallet" /\ last.result # "Ok") => ~last.dirty

====
